---------------------------- MODULE Spec2Model ----------------------------
(***************************************************************************)
(* The banking chat agent of app.py: the input validator, the output       *)
(* sanitizer and the agent/tools graph that threads the conversation       *)
(* state through them.                                                     *)
(*                                                                         *)
(* Texts are sequences of one-character strings, so that lower() and the   *)
(* substring test `in` are computed character by character.                *)
(***************************************************************************)
EXTENDS Integers, Sequences, FiniteSets, TLC

(***************************************************************************)
(* Bounds of the model.                                                    *)
(***************************************************************************)
\* Longest conversation state (number of messages) that is explored.
MaxMsgs == 5

\* Longest list of tool calls in a model output handed to the sanitizer.
MaxCalls == 2

\* Most turns of one session that end without a run of the graph to END:
\* prompts the validator rejects and runs that raise.
MaxRejected == 1

\* Largest limit asked of get_transactions_for_account.
MaxLimit == 2

(***************************************************************************)
(* str.lower() and the substring test.                                     *)
(***************************************************************************)
UpperCase ==
    <<"A", "B", "C", "D", "E", "F", "G", "H", "I", "J", "K", "L", "M", "N", "O", "P", "Q", "R", "S", "T", "U", "V", "W", "X", "Y", "Z">>

LowerCase ==
    <<"a", "b", "c", "d", "e", "f", "g", "h", "i", "j", "k", "l", "m", "n", "o", "p", "q", "r", "s", "t", "u", "v", "w", "x", "y", "z">>

UpperSet == {UpperCase[i] : i \in 1..Len(UpperCase)}

\* The lower-case letter of each upper-case letter.
LowerOf ==
    [c \in UpperSet |->
        LowerCase[CHOOSE i \in 1..Len(UpperCase) : UpperCase[i] = c]]

\* c.lower() for one character.
LowerChar(c) == IF c \in UpperSet THEN LowerOf[c] ELSE c

\* text.lower()
Lower(text) == [i \in 1..Len(text) |-> LowerChar(text[i])]

\* pattern in text
Contains(pattern, text) ==
    \E i \in 0..(Len(text) - Len(pattern)) :
        SubSeq(text, i + 1, i + Len(pattern)) = pattern

\* pattern.lower() in text.lower()
ContainsIgnoreCase(pattern, text) == Contains(Lower(pattern), Lower(text))

(***************************************************************************)
(* The fixed strings of app.py.                                            *)
(***************************************************************************)
REFUSAL ==
    <<"I", " ", "a", "p", "o", "l", "o", "g", "i", "z", "e", ",", " ", "b",
      "u", "t", " ", "I", " ", "c", "a", "n", "n", "o", "t", " ", "p", "r",
      "o", "v", "i", "d", "e", " ", "t", "h", "a", "t", " ", "i", "n", "f",
      "o", "r", "m", "a", "t", "i", "o", "n", " ", "o", "r", " ", "p", "e",
      "r", "f", "o", "r", "m", " ", "t", "h", "a", "t", " ", "a", "c", "t",
      "i", "o", "n", " ", "f", "o", "r", " ", "s", "e", "c", "u", "r", "i",
      "t", "y", " ", "r", "e", "a", "s", "o", "n", "s", ".">>

APOLOGY ==
    <<"I", " ", "a", "p", "o", "l", "o", "g", "i", "z", "e", ",", " ", "b",
      "u", "t", " ", "I", " ", "e", "n", "c", "o", "u", "n", "t", "e", "r",
      "e", "d", " ", "a", "n", " ", "u", "n", "e", "x", "p", "e", "c", "t",
      "e", "d", " ", "r", "e", "s", "p", "o", "n", "s", "e", " ", "f", "o",
      "r", "m", "a", "t", ".">>

SORRY_PREFIX ==
    <<"S", "o", "r", "r", "y", ",", " ", "I", " ", "e", "n", "c", "o", "u",
      "n", "t", "e", "r", "e", "d", " ", "a", "n", " ", "e", "r", "r", "o",
      "r", " ", "c", "a", "l", "l", "i", "n", "g", " ", "t", "h", "e", " ",
      "m", "o", "d", "e", "l", ":", " ">>

MSG_EMPTY ==
    <<"I", "n", "p", "u", "t", " ", "c", "a", "n", "n", "o", "t", " ", "b",
      "e", " ", "e", "m", "p", "t", "y", " ", "o", "r", " ", "j", "u", "s",
      "t", " ", "w", "h", "i", "t", "e", "s", "p", "a", "c", "e", ".">>

MSG_TOO_LONG ==
    <<"I", "n", "p", "u", "t", " ", "e", "x", "c", "e", "e", "d", "s", " ",
      "m", "a", "x", "i", "m", "u", "m", " ", "a", "l", "l", "o", "w", "e",
      "d", " ", "l", "e", "n", "g", "t", "h", " ", "o", "f", " ", "5", "0",
      "0", " ", "c", "h", "a", "r", "a", "c", "t", "e", "r", "s", ".">>

MSG_UNSAFE_PREFIX ==
    <<"I", "n", "p", "u", "t", " ", "c", "o", "n", "t", "a", "i", "n", "s",
      " ", "p", "o", "t", "e", "n", "t", "i", "a", "l", "l", "y", " ", "u",
      "n", "s", "a", "f", "e", " ", "p", "a", "t", "t", "e", "r", "n", ":",
      " ">>

\* f"An error occurred: {e}"
GRAPH_ERROR_PREFIX ==
    <<"A", "n", " ", "e", "r", "r", "o", "r", " ", "o", "c", "c", "u", "r",
      "r", "e", "d", ":", " ">>

NO_FINAL_RESPONSE ==
    <<"S", "o", "r", "r", "y", ",", " ", "I", " ", "c", "o", "u", "l", "d",
      "n", "'", "t", " ", "g", "e", "n", "e", "r", "a", "t", "e", " ", "a",
      " ", "f", "i", "n", "a", "l", " ", "r", "e", "s", "p", "o", "n", "s",
      "e", ".">>

\* The prefix of the validation-reason entry: the warning sign (one
\* character, written here by name) and a space.
WARNING_PREFIX == <<"(warning sign)", " ">>

harmful_patterns ==
    << <<"s", "u", "d", "o">>,
       <<"r", "m", " ", "-", "r", "f">>,
       <<"d", "e", "l", " ", "/">>,
       <<"f", "o", "r", "m", "a", "t">>,
       <<"D", "R", "O", "P", " ", "T", "A", "B", "L", "E">>,
       <<"D", "E", "L", "E", "T", "E", " ", "F", "R", "O", "M">>,
       <<"I", "N", "S", "E", "R", "T", " ", "I", "N", "T", "O">>,
       <<"U", "P", "D", "A", "T", "E">>,
       <<"e", "x", "e", "c", "(">>,
       <<"e", "v", "a", "l", "(">>,
       <<"o", "s", ".">>,
       <<"s", "u", "b", "p", "r", "o", "c", "e", "s", "s", ".">>,
       <<"s", "y", "s", "t", "e", "m", "(">> >>

dangerous_patterns ==
    << <<"D", "R", "O", "P">>,
       <<"D", "E", "L", "E", "T", "E">>,
       <<"U", "P", "D", "A", "T", "E">>,
       <<"I", "N", "S", "E", "R", "T">>,
       <<"S", "E", "L", "E", "C", "T">>,
       <<"-", "-">>,
       <<"/", "*">>,
       <<"*", "/">>,
       <<"E", "X", "E", "C">>,
       <<"E", "X", "E", "C", "U", "T", "E">>,
       <<";">>,
       <<"C", "R", "E", "A", "T", "E">>,
       <<"A", "L", "T", "E", "R">>,
       <<"<", "s", "c", "r", "i", "p", "t", ">">>,
       <<"<", "/", "s", "c", "r", "i", "p", "t", ">">>,
       <<"j", "a", "v", "a", "s", "c", "r", "i", "p", "t", ":">>,
       <<"o", "n", "e", "r", "r", "o", "r", "=">>,
       <<"o", "n", "l", "o", "a", "d", "=">> >>

(***************************************************************************)
(* The tool registry.                                                      *)
(***************************************************************************)
tools ==
    << [name |-> "get_customer_by_name_tool"],
       [name |-> "get_customer_by_id_tool"],
       [name |-> "get_accounts_for_customer_tool"],
       [name |-> "get_transactions_for_account_tool"] >>

\* [tool.name for tool in allowed_tools]
allowed_tool_names(allowed_tools) ==
    {allowed_tools[i].name : i \in 1..Len(allowed_tools)}

(***************************************************************************)
(* Messages.                                                               *)
(***************************************************************************)
\* llm.bind_tools(tools): the tools advertised to the model.
bound_tools == tools

\* A tools node built from an older list, one tool short.
tool_node_tools_Stale == SubSeq(tools, 1, Len(tools) - 1)

\* ToolNode(tools): the tools the tools node can execute.
tool_node_tools == tools

HumanMessage(content) == [type |-> "human", content |-> content]

\* tool_calls = None leaves the message without tool calls.
AIMessage(content, tool_calls) ==
    [type |-> "ai", content |-> content, tool_calls |-> tool_calls]

ToolMessage(content, tool_call_id, status) ==
    [type |-> "tool", content |-> content, tool_call_id |-> tool_call_id,
     status |-> status]

\* A reducer keeping only the update.
add_Overwrite(left, right) == right

\* Annotated[Sequence[BaseMessage], operator.add]: an update to messages is
\* concatenated to the state's list.
add(left, right) == left \o right

NoMessage == [type |-> "none"]

NoResponse == [kind |-> "none"]

NoError == [kind |-> "none"]

END == "__end__"

(***************************************************************************)
(* Input validation.                                                       *)
(***************************************************************************)
Whitespace == {" ", "\t", "\n", "\r"}

\* input_text.isspace()
isspace(text) == text # <<>> /\ \A i \in 1..Len(text) : text[i] \in Whitespace

\* The first deny-listed pattern found in input_text, in list order; 0 when
\* there is none.
first_dangerous(input_text) ==
    LET hits == {i \in 1..Len(dangerous_patterns) :
                    ContainsIgnoreCase(dangerous_patterns[i], input_text)}
    IN  IF hits = {} THEN 0 ELSE CHOOSE i \in hits : \A j \in hits : i <= j

\* The validator without the length check.
validate_user_input_NoLength(input_text) ==
    IF input_text = <<>> \/ isspace(input_text)
    THEN <<FALSE, MSG_EMPTY>>
    ELSE IF first_dangerous(input_text) # 0
    THEN <<FALSE,
           MSG_UNSAFE_PREFIX \o dangerous_patterns[first_dangerous(input_text)]>>
    ELSE <<TRUE, <<>>>>

\* The validator comparing the patterns with the text as typed.
validate_user_input_CaseSensitive(input_text) ==
    IF input_text = <<>> \/ isspace(input_text)
    THEN <<FALSE, MSG_EMPTY>>
    ELSE IF Len(input_text) > 500
    THEN <<FALSE, MSG_TOO_LONG>>
    ELSE LET hits == {i \in 1..Len(dangerous_patterns) :
                         Contains(dangerous_patterns[i], input_text)}
         IN  IF hits # {}
             THEN LET first == CHOOSE i \in hits : \A j \in hits : i <= j
                  IN  <<FALSE, MSG_UNSAFE_PREFIX \o dangerous_patterns[first]>>
             ELSE <<TRUE, <<>>>>

\* The validator rejecting an input of exactly 500 characters.
validate_user_input_Strict(input_text) ==
    IF input_text = <<>> \/ isspace(input_text)
    THEN <<FALSE, MSG_EMPTY>>
    ELSE IF Len(input_text) >= 500
    THEN <<FALSE, MSG_TOO_LONG>>
    ELSE IF first_dangerous(input_text) # 0
    THEN <<FALSE,
           MSG_UNSAFE_PREFIX \o dangerous_patterns[first_dangerous(input_text)]>>
    ELSE <<TRUE, <<>>>>

\* Returns <<is_valid, error_message>>.
validate_user_input(input_text) ==
    IF input_text = <<>> \/ isspace(input_text)
    THEN <<FALSE, MSG_EMPTY>>
    ELSE IF Len(input_text) > 500
    THEN <<FALSE, MSG_TOO_LONG>>
    ELSE LET hits == {i \in 1..Len(dangerous_patterns) :
                         ContainsIgnoreCase(dangerous_patterns[i], input_text)}
         IN  IF hits # {}
             THEN LET first == CHOOSE i \in hits : \A j \in hits : i <= j
                  IN  <<FALSE, MSG_UNSAFE_PREFIX \o dangerous_patterns[first]>>
             ELSE <<TRUE, <<>>>>

(***************************************************************************)
(* Output sanitizer.                                                       *)
(***************************************************************************)
\* any(pattern.lower() in content.lower() for pattern in harmful_patterns)
contains_harmful(content) ==
    \E i \in 1..Len(harmful_patterns) :
        ContainsIgnoreCase(harmful_patterns[i], content)

\* The sanitizer without the allow-list check: every requested call counts
\* as valid.
validate_and_sanitize_output_NoAllowList(response, allowed_tools) ==
    IF response.kind # "AIMessage"
    THEN IF response.has_content
         THEN AIMessage(response.content, <<>>)
         ELSE AIMessage(APOLOGY, <<>>)
    ELSE IF contains_harmful(response.content)
         THEN AIMessage(REFUSAL, <<>>)
         ELSE AIMessage(response.content, response.tool_calls)

\* The sanitizer replacing harmful text and keeping the tool calls.
validate_and_sanitize_output_KeepCalls(response, allowed_tools) ==
    IF response.kind # "AIMessage"
    THEN IF response.has_content
         THEN AIMessage(response.content, <<>>)
         ELSE AIMessage(APOLOGY, <<>>)
    ELSE LET Allowed(tool_call) ==
                 tool_call.name \in allowed_tool_names(allowed_tools)
             valid_tool_calls == SelectSeq(response.tool_calls, Allowed)
         IN  IF /\ response.tool_calls # <<>>
                /\ Len(valid_tool_calls) # Len(response.tool_calls)
             THEN AIMessage(response.content, valid_tool_calls)
             ELSE IF contains_harmful(response.content)
                  THEN AIMessage(REFUSAL, response.tool_calls)
                  ELSE AIMessage(response.content, response.tool_calls)

validate_and_sanitize_output(response, allowed_tools) ==
    IF response.kind # "AIMessage"
    THEN IF response.has_content
         THEN AIMessage(response.content, <<>>)
         ELSE AIMessage(APOLOGY, <<>>)
    ELSE LET Allowed(tool_call) ==
                 tool_call.name \in allowed_tool_names(allowed_tools)
             valid_tool_calls == SelectSeq(response.tool_calls, Allowed)
         IN  IF /\ response.tool_calls # <<>>
                /\ Len(valid_tool_calls) # Len(response.tool_calls)
             THEN AIMessage(response.content, valid_tool_calls)
             ELSE IF contains_harmful(response.content)
                  THEN AIMessage(REFUSAL, <<>>)
                  ELSE AIMessage(response.content, response.tool_calls)

(***************************************************************************)
(* Graph nodes and routing.                                                *)
(***************************************************************************)
\* The router testing only that the last message can carry tool calls.
should_continue_AnyAIMessage(state) ==
    LET last_message == state[Len(state)]
    IN  IF last_message.type = "ai" THEN "tools" ELSE END

\* The conditional edge with a cap on the length of the conversation.
should_continue_Capped(state) ==
    IF Len(state) >= 4
    THEN END
    ELSE LET last_message == state[Len(state)]
         IN  IF last_message.type = "ai" /\ last_message.tool_calls # <<>>
             THEN "tools"
             ELSE END

should_continue(state) ==
    LET last_message == state[Len(state)]
    IN  IF last_message.type = "ai" /\ last_message.tool_calls # <<>>
        THEN "tools"
        ELSE END

\* call_model returning nothing when llm.invoke raises.
call_model_Swallow(outcome) ==
    IF outcome.kind = "raise"
    THEN << >>
    ELSE << validate_and_sanitize_output(outcome, tools) >>

\* The list of messages call_model returns for one outcome of llm.invoke:
\* a response, or an exception carrying the text `error`.
call_model(outcome) ==
    IF outcome.kind = "raise"
    THEN << AIMessage(SORRY_PREFIX \o outcome.error, <<>>) >>
    ELSE << validate_and_sanitize_output(outcome, tools) >>

(***************************************************************************)
(* Inputs: what the user, the model provider and the tools may produce.    *)
(***************************************************************************)
TextHello ==
    <<"Y", "o", "u", "r", " ", "b", "a", "l", "a", "n", "c", "e", " ", "i",
      "s", " ", "1", "0">>

TextShell ==
    <<"p", "l", "e", "a", "s", "e", " ", "r", "u", "n", " ", "r", "m", " ",
      "-", "r", "f", " ", "/", "t", "m", "p">>

TextSudo ==
    <<"U", "s", "e", " ", "S", "U", "D", "O", " ", "n", "o", "w">>

TextUpdate ==
    <<"u", "p", "d", "a", "t", "e", " ", "d", "o", "n", "e">>

ErrTimeout ==
    <<"c", "o", "n", "n", "e", "c", "t", "i", "o", "n", " ", "r", "e", "f",
      "u", "s", "e", "d">>

ErrFormat ==
    <<"i", "n", "v", "a", "l", "i", "d", " ", "f", "o", "r", "m", "a", "t">>

AskBalance ==
    <<"s", "h", "o", "w", " ", "a", "c", "c", "o", "u", "n", "t", "s", " ",
      "o", "f", " ", "c", "u", "s", "t", "o", "m", "e", "r", " ", "1">>

AskDrop ==
    <<"1", "=", "1", ";", " ", "D", "R", "O", "P", " ", "T", "A", "B", "L",
      "E", " ", "c", "u", "s", "t", "o", "m", "e", "r", "s">>

ToolErrText ==
    <<"v", "a", "l", "i", "d", "a", "t", "i", "o", "n", " ", "e", "r", "r",
      "o", "r">>

NullText ==
    <<"n", "u", "l", "l">>

TOOL_ERROR_PREFIX ==
    <<"E", "r", "r", "o", "r", ":", " ">>

\* Inputs longer than the validator's limit: letters only, and spaces only.
LongPrompt == [i \in 1..501 |-> "x"]

LongBlank == [i \in 1..501 |-> " "]

\* Texts the user may submit.
Prompts == {AskBalance, AskDrop, LongPrompt, LongBlank}

\* Inputs handed to the validator on its own: every deny-listed pattern as
\* written and in lower case, alone, inside a sentence, and inside an input
\* longer than the limit; and the empty, blank, longest accepted and too
\* long inputs.
PatternTexts ==
    {dangerous_patterns[i] : i \in 1..Len(dangerous_patterns)}
    \cup {Lower(dangerous_patterns[i]) : i \in 1..Len(dangerous_patterns)}

ValPrompts ==
    PatternTexts
    \cup {AskBalance \o <<" ">> \o t : t \in PatternTexts}
    \cup {LongPrompt \o t : t \in PatternTexts}
    \cup {<<>>, <<" ">>, AskBalance, AskDrop, LongPrompt, LongBlank,
          [i \in 1..500 |-> "x"]}

\* Tool names the model may ask for: two registered ones and a foreign one.
RequestedNames ==
    {"get_customer_by_id_tool", "get_transactions_for_account_tool",
     "deleteAllAccounts"}

\* The tool calls of a model output produced when the conversation holds n
\* messages: call identifiers are unique tokens.
ToolCalls(names, n) ==
    [i \in 1..Len(names) |-> [name |-> names[i], id |-> <<n, i>>]]

SeqsUpTo(S, k) == UNION {[1..m -> S] : m \in 0..k}

\* Model outputs handed to the sanitizer on its own.
SanTexts == {<<>>, TextHello, TextShell, TextSudo, TextUpdate}

SanResponses ==
    {[kind |-> "AIMessage", content |-> c, tool_calls |-> ToolCalls(ns, 0)] :
        c \in SanTexts, ns \in SeqsUpTo(RequestedNames, MaxCalls)}
    \cup {[kind |-> "other", has_content |-> TRUE, content |-> c] :
            c \in SanTexts}
    \cup {[kind |-> "other", has_content |-> FALSE]}

\* Outcomes of llm.invoke inside the loop.
LoopTexts == {TextHello, TextShell}

LoopNames ==
    { <<>>,
      <<"get_customer_by_id_tool">>,
      <<"deleteAllAccounts">>,
      <<"get_customer_by_id_tool", "deleteAllAccounts">>,
      <<"get_customer_by_id_tool", "get_transactions_for_account_tool">> }

\* Exception texts.
ErrorTexts == {ErrTimeout, ErrFormat}

ModelErrors == {ErrTimeout}

\* Exceptions raised while the graph runs, outside call_model's try.
GraphErrors == {ErrFormat}

ModelOutcomes(n) ==
    {[kind |-> "AIMessage", content |-> c, tool_calls |-> ToolCalls(ns, n)] :
        c \in LoopTexts, ns \in LoopNames}
    \cup {[kind |-> "AIMessage", content |-> <<>>, tool_calls |-> <<>>]}
    \cup {[kind |-> "raise", error |-> e] : e \in ModelErrors}

\* Outcomes of running one tool: it returns, or it fails (its arguments do
\* not fit the tool's schema, or the tool raises).
ToolOutcomes == {"ok", "error"}

(***************************************************************************)
(* Data access: db_utils.py over the tables of create_dummy_db.py.         *)
(***************************************************************************)
\* limit: int = 10 of get_transactions_for_account_tool
TOOL_DEFAULT_LIMIT == 10

\* limit=20 of get_transactions_for_account
DEFAULT_LIMIT == 20

\* Python's None.
None == [kind |-> "None"]

\* An integer argument n as the binding of a statement parameter sees it:
\* n = wraps * 2^64 + value, with value in SQLite's signed 64-bit range.
IntArg(wraps, value) == [wraps |-> wraps, value |-> value]

\* Binding a Python int outside the signed 64-bit range raises
\* OverflowError, which is not an sqlite3.Error.
fits_int64(arg) == arg.wraps = 0

NameAnn == <<"A", "n", "n">>

NameBob == <<"B", "o", "b">>

\* Rows the tables may hold; id is each table's primary key.  A timestamp
\* is an ISO text and SQLite orders texts; it is written here as its rank
\* in that order.
CustomerPool ==
    {[id |-> 1, name |-> NameAnn], [id |-> 2, name |-> NameBob]}

AccountPool ==
    {[id |-> 1, customer_id |-> 1, account_type |-> "checking"],
     [id |-> 2, customer_id |-> 1, account_type |-> "savings"],
     [id |-> 3, customer_id |-> 2, account_type |-> "checking"]}

TransactionPool ==
    {[id |-> 1, account_id |-> 1, timestamp |-> 2],
     [id |-> 2, account_id |-> 1, timestamp |-> 1],
     [id |-> 3, account_id |-> 1, timestamp |-> 2],
     [id |-> 4, account_id |-> 2, timestamp |-> 3]}

EmptyDb == [customers |-> {}, accounts |-> {}, transactions |-> {}]

Databases ==
    {[customers |-> c, accounts |-> a, transactions |-> t] :
        c \in SUBSET CustomerPool,
        a \in {{}, AccountPool},
        t \in SUBSET TransactionPool}

\* The order of the account_type texts.
account_type_rank == [t \in {"checking", "savings"} |->
                         IF t = "checking" THEN 1 ELSE 2]

\* text LIKE pattern, on lower-cased texts: % matches any run of
\* characters and _ any one character.
RECURSIVE like(_, _)
like(pattern, text) ==
    IF pattern = <<>>
    THEN text = <<>>
    ELSE IF Head(pattern) = "%"
    THEN \/ like(Tail(pattern), text)
         \/ text # <<>> /\ like(pattern, Tail(text))
    ELSE /\ text # <<>>
         /\ Head(pattern) = "_" \/ Head(pattern) = Head(text)
         /\ like(Tail(pattern), Tail(text))

\* The orders in which a statement may return a set of rows.
row_orders(rows) ==
    {s \in [1..Cardinality(rows) -> rows] :
        \A i, j \in 1..Cardinality(rows) : s[i] = s[j] => i = j}

\* ORDER BY timestamp, oldest first.
order_by_timestamp_Asc(rows) ==
    {s \in row_orders(rows) :
        \A i, j \in 1..Len(s) : i < j => s[i].timestamp <= s[j].timestamp}

\* ORDER BY timestamp DESC: rows of equal timestamp come in any order.
order_by_timestamp_desc(rows) ==
    {s \in row_orders(rows) :
        \A i, j \in 1..Len(s) : i < j => s[i].timestamp >= s[j].timestamp}

\* ORDER BY account_type
order_by_account_type(rows) ==
    {s \in row_orders(rows) :
        \A i, j \in 1..Len(s) :
            i < j => account_type_rank[s[i].account_type]
                         <= account_type_rank[s[j].account_type]}

\* LIMIT n: a negative n is no limit.
limit_rows(s, n) ==
    IF n < 0 \/ n >= Len(s) THEN s ELSE SubSeq(s, 1, n)

\* cur.fetchone() made a dict: a row of the result, or None.
fetchone(rows) == IF rows = {} THEN {None} ELSE rows

\* The five data-access functions.
Functions ==
    {"get_customer_by_name", "get_customer_by_id",
     "get_accounts_for_customer", "get_account_by_id",
     "get_transactions_for_account"}

ListFunctions ==
    {"get_accounts_for_customer", "get_transactions_for_account"}

\* The values a function may return when its statement runs.
query(fn, args, db) ==
    CASE fn = "get_customer_by_name" ->
             fetchone({r \in db.customers :
                          like(Lower(<<"%">> \o args.name \o <<"%">>),
                               Lower(r.name))})
      [] fn = "get_customer_by_id" ->
             fetchone({r \in db.customers : r.id = args.customer_id.value})
      [] fn = "get_accounts_for_customer" ->
             order_by_account_type(
                 {r \in db.accounts :
                     r.customer_id = args.customer_id.value})
      [] fn = "get_account_by_id" ->
             fetchone({r \in db.accounts : r.id = args.account_id.value})
      [] fn = "get_transactions_for_account" ->
             {limit_rows(s, args.limit) :
                 s \in order_by_timestamp_desc(
                          {r \in db.transactions :
                              r.account_id = args.account_id.value})}

\* The integer parameters of the statement can be bound.
binds(fn, args) ==
    CASE fn = "get_customer_by_name" -> TRUE
      [] fn \in {"get_customer_by_id", "get_accounts_for_customer"} ->
             fits_int64(args.customer_id)
      [] fn \in {"get_account_by_id", "get_transactions_for_account"} ->
             fits_int64(args.account_id)

\* A function answering a failure with the text of the error.
default_result_ErrorText(fn) ==
    IF fn \in ListFunctions
    THEN <<[error |-> ErrTimeout]>>
    ELSE [error |-> ErrTimeout]

\* The value a function holds before its statement has run, which it
\* returns when the connection or the statement fails.
default_result(fn) == IF fn \in ListFunctions THEN <<>> ELSE None

\* A statement that deletes the rows of the tables.
select_effect_Purge(db) == EmptyDb

\* The statements are SELECTs: they leave the tables as they are.
select_effect(db) == db

\* The function each tool calls.
tool_function ==
    [t \in {tools[i].name : i \in 1..Len(tools)} |->
        CASE t = "get_customer_by_name_tool" -> "get_customer_by_name"
          [] t = "get_customer_by_id_tool" -> "get_customer_by_id"
          [] t = "get_accounts_for_customer_tool" ->
                 "get_accounts_for_customer"
          [] t = "get_transactions_for_account_tool" ->
                 "get_transactions_for_account"]

\* Who calls a function: its tool, or other code directly.
Callers(fn) ==
    {t \in DOMAIN tool_function : tool_function[t] = fn} \cup {"direct"}

\* Arguments: ids stored and not stored, an id beyond 64 bits whose low
\* bits are a stored id, names with and without LIKE wildcards, and limits
\* from -1 to MaxLimit or left to the default.
IdArgs == {IntArg(0, 1), IntArg(0, 2), IntArg(0, 9), IntArg(1, 1)}

NameArgs == {<<"a", "N">>, <<"b", "_", "b">>, <<"%">>, <<"z">>}

Limits == (-1)..MaxLimit

Args(fn, caller) ==
    CASE fn = "get_customer_by_name" -> {[name |-> n] : n \in NameArgs}
      [] fn \in {"get_customer_by_id", "get_accounts_for_customer"} ->
             {[customer_id |-> i] : i \in IdArgs}
      [] fn = "get_account_by_id" -> {[account_id |-> i] : i \in IdArgs}
      [] fn = "get_transactions_for_account" ->
             {[account_id |-> i, limit |-> l] :
                 i \in IdArgs,
                 l \in Limits \cup {IF caller = "direct"
                                    THEN DEFAULT_LIMIT
                                    ELSE TOOL_DEFAULT_LIMIT}}

NoConnection == 0

NoCall == [fn |-> "none"]

\* sqlite3.connect: a new connection, or None when it raises sqlite3.Error.
create_connection(outcome, open) ==
    IF outcome = "ok"
    THEN CHOOSE c \in 1..(Cardinality(open) + 1) : c \notin open
    ELSE NoConnection

(***************************************************************************)
(* State.                                                                  *)
(***************************************************************************)
VARIABLES
    messages,            \* AgentState.messages of the thread (checkpointed)
    pc,                  \* "idle", the node about to run ("agent", "tools"),
                         \* or END; "sanitize"/"sanitized" for the sanitizer
                         \* run on its own
    validation,          \* <<is_valid, error_message>> of the last prompt
    response,            \* call_model: what llm.invoke returned
    validated_response,  \* call_model: what the sanitizer returned
    caught,              \* call_model: the exception caught, if any
    started,             \* tools node: the tool calls handed to the executor
    outputs,             \* tools node: the ToolMessage of each finished call
    failed,              \* tools node: the calls whose invocation failed
    prompt,              \* the text of the last chat input
    session,             \* st.session_state.messages, the displayed history
    invoked,             \* call_model: the messages handed to llm.invoke
    stored,              \* banking.db: the rows of its three tables
    connections,         \* the database connections that are open
    db_call              \* the data-access call under way, or the last one

vars ==
    <<messages, pc, validation, response, validated_response, caught,
      started, outputs, failed, prompt, session, invoked, stored,
      connections, db_call>>

\* The state of the chat application other than pc, and the state of the
\* data access.
app_vars ==
    <<messages, validation, response, validated_response, caught, started,
      outputs, failed, prompt, session, invoked>>

db_vars == <<stored, connections, db_call>>

NoValidation == <<TRUE, <<>>>>

Room(k) == Len(messages) + k <= MaxMsgs

Init ==
    /\ messages = <<>>
    /\ pc = "idle"
    /\ validation = NoValidation
    /\ response = NoResponse
    /\ validated_response = NoMessage
    /\ caught = NoError
    /\ started = {}
    /\ outputs = <<>>
    /\ failed = {}
    /\ prompt = <<>>
    /\ session = <<>>
    /\ invoked = <<>>
    /\ stored = EmptyDb
    /\ connections = {}
    /\ db_call = NoCall

(***************************************************************************)
(* The displayed history: entries of st.session_state.messages.            *)
(***************************************************************************)
\* The entry for a rejected prompt, shown with the user's role.
rejected_entry_AsUser(error_message) ==
    [role |-> "user", content |-> WARNING_PREFIX \o error_message]

rejected_entry(error_message) ==
    [role |-> "system", content |-> WARNING_PREFIX \o error_message]

user_entry(text) == [role |-> "user", content |-> text]

error_entry(e) ==
    [role |-> "assistant", content |-> GRAPH_ERROR_PREFIX \o e]

\* The number of prompts rejected so far.
rejected ==
    Cardinality({i \in 1..Len(session) : session[i].role = "system"})

\* A run that starts on a new thread, whose state is empty.
thread_state_NewThread(saved) == <<>>

\* The checkpointer hands a run the state saved for its thread_id, which is
\* the same for the whole session.
thread_state(saved) == saved

\* The number of runs of the graph that raised so far.
raised ==
    Cardinality({i \in 1..Len(session) :
                    session[i] \in {error_entry(e) : e \in GraphErrors}})

\* graph_input["messages"]
graph_input(text) == <<HumanMessage(text)>>

\* The tool calls of every AI message of the final state.
RECURSIVE tool_calls_info(_)
tool_calls_info(state) ==
    IF state = <<>>
    THEN <<>>
    ELSE (IF Head(state).type = "ai" THEN Head(state).tool_calls ELSE <<>>)
         \o tool_calls_info(Tail(state))

\* The tool results of the final state.
tool_results_info(state) ==
    LET results == SelectSeq(state, LAMBDA msg : msg.type = "tool")
    IN  [i \in 1..Len(results) |->
            [tool_call_id |-> results[i].tool_call_id,
             content |-> results[i].content]]

\* The entry appended for the final state of a run of the graph.
response_data(final_state) ==
    LET final_message == final_state[Len(final_state)]
        final_ai_response ==
            IF final_message.type = "ai" THEN final_message.content ELSE <<>>
    IN  IF final_ai_response # <<>>
        THEN [role |-> "assistant",
              content |-> final_ai_response,
              tool_calls |-> tool_calls_info(final_state),
              tool_results |-> tool_results_info(final_state)]
        ELSE [role |-> "assistant", content |-> NO_FINAL_RESPONSE]

(***************************************************************************)
(* A user turn: the prompt is validated and, when valid, the graph is      *)
(* invoked with it on the thread.                                          *)
(***************************************************************************)
SubmitPrompt ==
    \E text \in Prompts :
        /\ pc = "idle"
        /\ prompt' = text
        /\ validation' = validate_user_input(text)
        /\ IF validation'[1]
           THEN /\ Room(1)
                /\ session' = Append(session, user_entry(text))
                /\ messages' = add(thread_state(messages), graph_input(text))
                /\ pc' = "agent"
                /\ response' = NoResponse
                /\ validated_response' = NoMessage
                /\ caught' = NoError
           ELSE /\ rejected + raised < MaxRejected
                /\ session' = Append(session, rejected_entry(validation'[2]))
                /\ UNCHANGED <<messages, pc, response, validated_response,
                               caught>>
        /\ UNCHANGED <<started, outputs, failed, invoked, db_vars>>

(***************************************************************************)
(* The agent node (call_model) followed by the conditional edge.           *)
(***************************************************************************)
AgentStep ==
    \E outcome \in ModelOutcomes(Len(messages)) :
        /\ pc = "agent"
        /\ Room(1)
        /\ invoked' = messages
        /\ messages' = add(messages, call_model(outcome))
        /\ response' = IF outcome.kind = "raise" THEN NoResponse ELSE outcome
        /\ validated_response' =
               IF outcome.kind = "raise"
               THEN NoMessage
               ELSE validate_and_sanitize_output(outcome, tools)
        /\ caught' = IF outcome.kind = "raise" THEN outcome ELSE NoError
        /\ pc' = should_continue(messages')
        /\ UNCHANGED <<validation, started, outputs, failed, prompt, session,
                       db_vars>>

(***************************************************************************)
(* The graph has run to END: the reply is taken from the final state and   *)
(* appended to the displayed history.                                      *)
(***************************************************************************)
\* The turn handler appending nothing when the final message is empty.
DisplayReply_SkipEmpty ==
    /\ pc = END
    /\ session' = IF messages[Len(messages)].content # <<>>
                  THEN Append(session, response_data(messages))
                  ELSE session
    /\ pc' = "idle"
    /\ response' = NoResponse
    /\ validated_response' = NoMessage
    /\ caught' = NoError
    /\ UNCHANGED <<messages, validation, started, outputs, failed, prompt,
                   invoked, db_vars>>

DisplayReply ==
    /\ pc = END
    /\ session' = Append(session, response_data(messages))
    /\ pc' = "idle"
    /\ response' = NoResponse
    /\ validated_response' = NoMessage
    /\ caught' = NoError
    /\ UNCHANGED <<messages, validation, started, outputs, failed, prompt,
                   invoked, db_vars>>

(***************************************************************************)
(* Running the graph raises: the turn handler catches the exception and    *)
(* appends its text to the displayed history.                              *)
(***************************************************************************)
GraphRaise ==
    \E e \in GraphErrors :
        /\ pc \in {"agent", "tools"}
        /\ rejected + raised < MaxRejected
        /\ session' = Append(session, error_entry(e))
        /\ pc' = "idle"
        /\ started' = {}
        /\ outputs' = <<>>
        /\ failed' = {}
        /\ response' = NoResponse
        /\ validated_response' = NoMessage
        /\ caught' = NoError
        /\ UNCHANGED <<messages, validation, prompt, invoked, db_vars>>

(***************************************************************************)
(* The tools node: ToolNode(tools) runs the tool calls of the last         *)
(* message on the run's executor, in parallel, and returns one ToolMessage *)
(* per call, in the order of the calls.                                    *)
(***************************************************************************)
pending_calls == messages[Len(messages)].tool_calls

running == started \ DOMAIN outputs

\* A tool invocation fails when the name is not a tool of the node, or
\* when calling the tool fails.
invocation_fails(call, outcome) ==
    call.name \notin allowed_tool_names(tool_node_tools) \/ outcome = "error"

\* run_one reporting a failed invocation as an empty success.
run_one_HideError(call, outcome) ==
    ToolMessage(NullText, call.id, "success")

\* run_one tagging the ToolMessage with the tool's name.
run_one_TagName(call, outcome) ==
    IF invocation_fails(call, outcome)
    THEN ToolMessage(TOOL_ERROR_PREFIX \o ToolErrText, call.name, "error")
    ELSE ToolMessage(NullText, call.name, "success")

\* The ToolMessage for one call: a failure is turned into a ToolMessage
\* carrying the error text, not raised.
run_one(call, outcome) ==
    IF invocation_fails(call, outcome)
    THEN ToolMessage(TOOL_ERROR_PREFIX \o ToolErrText, call.id, "error")
    ELSE ToolMessage(NullText, call.id, "success")

ToolStart ==
    /\ pc = "tools"
    /\ Room(Len(pending_calls))
    /\ \E i \in 1..Len(pending_calls) :
           /\ i \notin started
           /\ started' = started \cup {i}
    /\ UNCHANGED <<messages, pc, validation, response,
                   validated_response, caught, outputs, failed, prompt,
                   session, invoked, db_vars>>

ToolFinish ==
    /\ pc = "tools"
    /\ \E i \in running, outcome \in ToolOutcomes :
           /\ outputs' = outputs @@ (i :> run_one(pending_calls[i], outcome))
           /\ failed' = IF invocation_fails(pending_calls[i], outcome)
                        THEN failed \cup {i}
                        ELSE failed
    /\ UNCHANGED <<messages, pc, validation, response,
                   validated_response, caught, started, prompt, session,
                   invoked, db_vars>>

\* The node's results listed last call first.
tool_messages_Reversed(calls, outs) ==
    [i \in 1..Len(calls) |-> outs[Len(calls) + 1 - i]]

\* The node's update: the ToolMessages in the order of the calls.
tool_messages(calls, outs) == [i \in 1..Len(calls) |-> outs[i]]

\* The tools node returning as soon as one call has finished.
ToolsReturn_Early ==
    /\ pc = "tools"
    /\ DOMAIN outputs # {}
    /\ messages' = messages \o
           [i \in 1..Cardinality(DOMAIN outputs) |->
               outputs[CHOOSE j \in DOMAIN outputs :
                   Cardinality({l \in DOMAIN outputs : l <= j}) = i]]
    /\ pc' = "agent"
    /\ started' = {}
    /\ outputs' = <<>>
    /\ failed' = {}
    /\ response' = NoResponse
    /\ validated_response' = NoMessage
    /\ caught' = NoError
    /\ UNCHANGED <<validation, prompt, session, invoked, db_vars>>

ToolsReturn ==
    /\ pc = "tools"
    /\ DOMAIN outputs = 1..Len(pending_calls)
    /\ messages' = add(messages, tool_messages(pending_calls, outputs))
    /\ pc' = "agent"
    /\ started' = {}
    /\ outputs' = <<>>
    /\ failed' = {}
    /\ response' = NoResponse
    /\ validated_response' = NoMessage
    /\ caught' = NoError
    /\ UNCHANGED <<validation, prompt, session, invoked, db_vars>>

Next ==
    \/ SubmitPrompt
    \/ AgentStep
    \/ ToolStart
    \/ ToolFinish
    \/ ToolsReturn
    \/ DisplayReply

Spec == Init /\ [][Next]_vars

\* The same turns, where running the graph may also raise.
NextRaise ==
    \/ SubmitPrompt
    \/ AgentStep
    \/ ToolStart
    \/ ToolFinish
    \/ ToolsReturn
    \/ DisplayReply
    \/ GraphRaise

SpecRaise == Init /\ [][NextRaise]_vars

(***************************************************************************)
(* The validator on its own, over every input of ValPrompts.               *)
(***************************************************************************)
ValInit ==
    /\ messages = <<>>
    /\ pc = "validate"
    /\ validation = NoValidation
    /\ response = NoResponse
    /\ validated_response = NoMessage
    /\ caught = NoError
    /\ started = {}
    /\ outputs = <<>>
    /\ failed = {}
    /\ prompt \in ValPrompts
    /\ session = <<>>
    /\ invoked = <<>>
    /\ stored = EmptyDb
    /\ connections = {}
    /\ db_call = NoCall

ValidateCall ==
    /\ pc = "validate"
    /\ validation' = validate_user_input(prompt)
    /\ pc' = "validated"
    /\ UNCHANGED <<messages, response, validated_response, caught, started,
                   outputs, failed, prompt, session, invoked, db_vars>>

ValNext == ValidateCall

ValSpec == ValInit /\ [][ValNext]_vars

(***************************************************************************)
(* The data-access functions, run one call at a time over every database   *)
(* of Databases.  Each function has the same four steps.                   *)
(***************************************************************************)
DbInit ==
    /\ messages = <<>>
    /\ pc = "db_idle"
    /\ validation = NoValidation
    /\ response = NoResponse
    /\ validated_response = NoMessage
    /\ caught = NoError
    /\ started = {}
    /\ outputs = <<>>
    /\ failed = {}
    /\ prompt = <<>>
    /\ session = <<>>
    /\ invoked = <<>>
    /\ stored \in Databases
    /\ connections = {}
    /\ db_call = NoCall

\* The function is entered: conn = create_connection(), and the early
\* return when there is no connection.
DbCall ==
    \E fn \in Functions, outcome \in {"ok", "sqlite3.Error"} :
        \E caller \in Callers(fn) :
            \E args \in Args(fn, caller) :
                LET conn == create_connection(outcome, connections)
                IN  /\ pc = "db_idle"
                    /\ db_call' =
                           [fn |-> fn, args |-> args, caller |-> caller,
                            conn |-> conn,
                            result |-> default_result(fn),
                            failure |->
                                IF conn = NoConnection
                                THEN "connect" ELSE "none",
                            raised |-> "none",
                            statements |-> 0]
                    /\ connections' =
                           IF conn = NoConnection
                           THEN connections
                           ELSE connections \cup {conn}
                    /\ pc' = IF conn = NoConnection
                             THEN "db_returned" ELSE "db_try"
                    /\ UNCHANGED <<stored, app_vars>>

\* The try block: cur.execute and the fetch.
DbExecute ==
    /\ pc = "db_try"
    /\ \E outcome \in {"ok", "sqlite3.Error"} :
           IF ~binds(db_call.fn, db_call.args)
           THEN /\ db_call' = [db_call EXCEPT !.raised = "OverflowError"]
                /\ UNCHANGED stored
           ELSE IF outcome = "sqlite3.Error"
           THEN /\ db_call' = [db_call EXCEPT !.failure = "query",
                                              !.statements = @ + 1]
                /\ UNCHANGED stored
           ELSE \E value \in query(db_call.fn, db_call.args, stored) :
                    /\ db_call' = [db_call EXCEPT !.result = value,
                                                  !.statements = @ + 1]
                    /\ stored' = select_effect(stored)
    /\ pc' = "db_finally"
    /\ UNCHANGED <<connections, app_vars>>

\* A finally block that closes the connection only when nothing failed.
DbFinally_Leak ==
    /\ pc = "db_finally"
    /\ connections' = IF db_call.failure = "none"
                      THEN connections \ {db_call.conn}
                      ELSE connections
    /\ pc' = "db_returned"
    /\ UNCHANGED <<stored, db_call, app_vars>>

\* The finally block: conn.close().
DbFinally ==
    /\ pc = "db_finally"
    /\ connections' = connections \ {db_call.conn}
    /\ pc' = "db_returned"
    /\ UNCHANGED <<stored, db_call, app_vars>>

\* The caller has the returned value, or the exception.
DbReturn ==
    /\ pc = "db_returned"
    /\ pc' = "db_idle"
    /\ db_call' = NoCall
    /\ UNCHANGED <<stored, connections, app_vars>>

DbNext ==
    \/ DbCall
    \/ DbExecute
    \/ DbFinally
    \/ DbReturn

DbSpec == DbInit /\ [][DbNext]_vars

(***************************************************************************)
(* The sanitizer on its own, over every model output of SanResponses.      *)
(***************************************************************************)
SanInit ==
    /\ messages = <<>>
    /\ pc = "sanitize"
    /\ validation = NoValidation
    /\ response \in SanResponses
    /\ validated_response = NoMessage
    /\ caught = NoError
    /\ started = {}
    /\ outputs = <<>>
    /\ failed = {}
    /\ prompt = <<>>
    /\ session = <<>>
    /\ invoked = <<>>
    /\ stored = EmptyDb
    /\ connections = {}
    /\ db_call = NoCall

SanitizeCall ==
    /\ pc = "sanitize"
    /\ validated_response' = validate_and_sanitize_output(response, tools)
    /\ pc' = "sanitized"
    /\ UNCHANGED <<messages, validation, response, caught, started, outputs,
                   failed, prompt, session, invoked, db_vars>>

SanNext == SanitizeCall

SanSpec == SanInit /\ [][SanNext]_vars

(***************************************************************************)
(* Properties of the sanitizer.                                            *)
(***************************************************************************)
Sanitized == validated_response # NoMessage

ForeignCalls(calls) ==
    {i \in 1..Len(calls) : calls[i].name \notin allowed_tool_names(tools)}

\* C1: the message the sanitizer returns holds no tool call whose name is
\* not in the allow-list, whatever the model output was.
C1_OnlyAllowedToolCalls ==
    Sanitized => ForeignCalls(validated_response.tool_calls) = {}

\* A model output mixing a foreign and a registered call was sanitized and
\* the registered call survived.
C1_Witness ==
    /\ Sanitized
    /\ response.kind = "AIMessage"
    /\ ForeignCalls(response.tool_calls) # {}
    /\ validated_response.tool_calls # <<>>

\* C3: when the text of an assistant message contains a harmful token, in
\* any letter case, the content of the sanitizer's result is the fixed
\* refusal string, whatever tool calls the message carries.
C3_HarmfulTextIsRefused ==
    (Sanitized /\ response.kind = "AIMessage"
        /\ contains_harmful(response.content))
    => validated_response.content = REFUSAL

\* C4: the content of the message the sanitizer returns contains no entry
\* of the harmful-token list, in any letter case.
C4_ResultHasNoHarmfulToken ==
    Sanitized => ~contains_harmful(validated_response.content)

(***************************************************************************)
(* Properties of the agent loop.                                           *)
(***************************************************************************)
Last(seq) == seq[Len(seq)]

\* The step that leaves the agent node: call_model and its routing.
AgentStepped == pc = "agent" /\ pc' # "agent"

\* The step that leaves the tools node.
ToolsStepped == pc = "tools" /\ pc' # "tools"

AllForeign(calls) ==
    calls # <<>> /\ ForeignCalls(calls) = 1..Len(calls)

C5_AppendedMessageIsSanitized ==
    [][AgentStepped => Last(messages') = validated_response']_vars

\* C6: the agent step appends one assistant message and moves to the tools
\* node exactly when that message carries a tool call, and to END
\* otherwise; nothing else leaves the agent node.
C6_RoutingFollowsToolCalls ==
    [][pc = "agent" =>
        \/ pc' = "agent" /\ messages' = messages
        \/ /\ messages' = Append(messages, Last(messages'))
           /\ Last(messages').type = "ai"
           /\ \/ Last(messages').tool_calls # <<>> /\ pc' = "tools"
              \/ Last(messages').tool_calls = <<>> /\ pc' = END]_vars

\* A turn that went through the tools node and then reached END.
C6_Witness ==
    /\ pc = END
    /\ \E j \in 1..Len(messages) : messages[j].type = "tool"

\* The index of the last assistant message of the conversation state.
LastAI ==
    CHOOSE k \in 1..Len(messages) :
        /\ messages[k].type = "ai"
        /\ \A l \in (k + 1)..Len(messages) : messages[l].type # "ai"

\* Every tool call of the last assistant message has its result appended,
\* unless the turn has only just begun.
RoundComplete ==
    Last(messages).type # "human" =>
        LET calls == messages[LastAI].tool_calls
        IN  /\ Len(messages) = LastAI + Len(calls)
            /\ \A i \in 1..Len(calls) :
                   /\ messages[LastAI + i].type = "tool"
                   /\ messages[LastAI + i].tool_call_id = calls[i].id

\* C7 as stated: the tools node hands over to the agent node only, the
\* model is invoked again only when every tool call of the last assistant
\* message has a result appended, and the tool calls of a round run one at
\* a time, none of them while the model is invoked.
C7_ToolCallsOneAtATime ==
    [][/\ pc = "tools" => pc' \in {"tools", "agent"}
       /\ pc' = "agent" => RoundComplete'
       /\ running' # {} => pc' = "tools"
       /\ Cardinality(running') <= 1]_vars

\* C7 as amended: the tools node hands over to the agent node only, never
\* to END; the model is invoked again only when every tool call of the last
\* assistant message has a result appended; and a tool call runs only while
\* the loop is in the tools node, never while the model is invoked (the
\* calls of one round may run at the same time as each other).
C7_ToolsThenModel ==
    [][/\ pc = "tools" => pc' \in {"tools", "agent"}
       /\ pc' = "agent" => RoundComplete'
       /\ running' # {} => pc' = "tools"]_vars

\* The tools node returned two results and the model is about to be
\* invoked again.
C7_Witness ==
    /\ pc = "agent"
    /\ Len(messages) >= 2
    /\ Last(messages).type = "tool"
    /\ messages[Len(messages) - 1].type = "tool"

\* C8: when llm.invoke raises, the agent step appends exactly one assistant
\* message without tool calls and the loop is at END; no tool runs
\* afterwards in that turn.
C8_ModelFailureEndsTurn ==
    [][/\ (AgentStepped /\ caught' # NoError)
          => /\ messages' = Append(messages, Last(messages'))
             /\ Last(messages').type = "ai"
             /\ Last(messages').tool_calls = <<>>
             /\ pc' = END
       /\ caught # NoError => pc' # "tools" /\ started' = {}]_vars

\* llm.invoke raised and the turn is over.
C8_Witness ==
    /\ pc = END
    /\ caught # NoError
    /\ Last(messages).type = "ai"

\* C9: a failed tool invocation leaves the tools node running; its result
\* is a tool message carrying the error text and the identifier of the
\* call, appended when the node returns, and the loop goes on to the agent
\* node.
C9_ToolFailureBecomesMessage ==
    [][/\ failed' # failed /\ failed' # {}
          => pc' = "tools" /\ failed' \subseteq DOMAIN outputs'
       /\ ToolsStepped
          => /\ pc' = "agent"
             /\ \A i \in failed :
                    LET m == messages'[Len(messages) + i]
                    IN  /\ m.type = "tool"
                        /\ m.status = "error"
                        /\ m.tool_call_id = pending_calls[i].id
                        /\ Contains(ToolErrText, m.content)]_vars

\* A failed tool invocation is in the conversation state and the model is
\* about to see it.
C9_Witness ==
    /\ pc = "agent"
    /\ Last(messages).type = "tool"
    /\ Last(messages).status = "error"

\* C10: every tool message of the conversation state carries the
\* identifier of a tool call of the nearest assistant message before it.
C10_NoOrphanedToolResult ==
    \A j \in 1..Len(messages) :
        messages[j].type = "tool" =>
            /\ \E k \in 1..(j - 1) : messages[k].type = "ai"
            /\ LET k == CHOOSE k \in 1..(j - 1) :
                            /\ messages[k].type = "ai"
                            /\ \A l \in (k + 1)..(j - 1) :
                                   messages[l].type # "ai"
                   calls == messages[k].tool_calls
               IN  \E c \in 1..Len(calls) :
                       calls[c].id = messages[j].tool_call_id

\* Tool results of two rounds are in the conversation state.
C10_Witness ==
    \E j, l \in 1..Len(messages) :
        /\ j + 1 < l
        /\ messages[j].type = "tool"
        /\ messages[j + 1].type = "ai"
        /\ messages[l].type = "tool"

\* A chat input was handled: only then does the displayed history grow
\* while no run of the graph is under way.
Submitted == pc = "idle" /\ session' # session

\* C11: after each tools step the conversation state has grown by exactly
\* one tool message per tool call of the last assistant message, in the
\* order of the calls, each carrying the identifier of its call.
C11_ToolResultsInCallOrder ==
    [][ToolsStepped =>
          LET calls == Last(messages).tool_calls
              n == Len(messages)
          IN  /\ Last(messages).type = "ai"
              /\ Len(messages') = n + Len(calls)
              /\ SubSeq(messages', 1, n) = messages
              /\ \A i \in 1..Len(calls) :
                     /\ messages'[n + i].type = "tool"
                     /\ messages'[n + i].tool_call_id = calls[i].id]_vars

\* The results of a round of two tool calls have been appended.
C11_Witness ==
    /\ pc = "agent"
    /\ Len(messages) >= 4
    /\ Last(messages).type = "tool"
    /\ messages[Len(messages) - 1].type = "tool"
    /\ messages[Len(messages) - 2].type = "ai"

\* C12: the message sequence of the conversation state is append-only:
\* after every step the previous sequence is a prefix of the new one.
C12_AppendOnly ==
    [][/\ Len(messages') >= Len(messages)
       /\ SubSeq(messages', 1, Len(messages)) = messages]_vars

\* A turn with a user message, an agent step, a tools step and a final
\* agent step has ended.
C12_Witness ==
    /\ pc = END
    /\ messages[1].type = "human"
    /\ \E i \in 1..Len(messages) : messages[i].type = "tool"
    /\ Last(messages).type = "ai"

NoLongHumanMessage(state) ==
    \A i \in 1..Len(state) :
        state[i].type = "human" => Len(state[i].content) <= 500

\* C14 as stated: every input longer than 500 characters is rejected with
\* the length reason and the agent loop is not entered for it.
C14_LongInputGivesLengthReason ==
    [][(Submitted /\ Len(prompt') > 500) =>
          /\ validation' = <<FALSE, MSG_TOO_LONG>>
          /\ pc' = "idle"
          /\ messages' = messages
          /\ NoLongHumanMessage(messages')]_vars

\* C14, amended: every input longer than 500 characters is rejected and
\* the agent loop is not entered for it; the reason is the length reason
\* unless the input consists of whitespace only, and then it is the
\* empty-input reason.
C14_LongInputRejected ==
    [][(Submitted /\ Len(prompt') > 500) =>
          /\ validation' =
                 <<FALSE,
                   IF isspace(prompt') THEN MSG_EMPTY ELSE MSG_TOO_LONG>>
          /\ pc' = "idle"
          /\ messages' = messages
          /\ invoked' = invoked
          /\ NoLongHumanMessage(messages')]_vars

\* An input of 501 letters was rejected with the length reason.
C14_Witness ==
    /\ pc = "idle"
    /\ Len(prompt) > 500
    /\ validation = <<FALSE, MSG_TOO_LONG>>
    /\ session # <<>>
    /\ Last(session).role = "system"

HasDangerous(text) ==
    \E i \in 1..Len(dangerous_patterns) :
        ContainsIgnoreCase(dangerous_patterns[i], text)

\* C15 as stated: every input containing a deny-listed substring in any
\* letter case is rejected, and the reason names a matched substring.
C15_DenyListedIsNamed ==
    (pc = "validated" /\ HasDangerous(prompt)) =>
        /\ ~validation[1]
        /\ \E i \in 1..Len(dangerous_patterns) :
               /\ ContainsIgnoreCase(dangerous_patterns[i], prompt)
               /\ validation[2] = MSG_UNSAFE_PREFIX \o dangerous_patterns[i]

\* C15, amended: every input containing a deny-listed substring in any
\* letter case is rejected; when the input is at most 500 characters long
\* the reason names the first pattern of the list that matches, as the list
\* writes it, and when it is longer the reason is the length reason.
C15_ShortDenyListedIsNamed ==
    (pc = "validated" /\ HasDangerous(prompt)) =>
        /\ ~validation[1]
        /\ Len(prompt) > 500 => validation[2] = MSG_TOO_LONG
        /\ Len(prompt) <= 500 =>
               \E i \in 1..Len(dangerous_patterns) :
                   /\ ContainsIgnoreCase(dangerous_patterns[i], prompt)
                   /\ \A j \in 1..(i - 1) :
                          ~ContainsIgnoreCase(dangerous_patterns[j], prompt)
                   /\ validation[2] =
                          MSG_UNSAFE_PREFIX \o dangerous_patterns[i]

\* A short input holding a pattern in another letter case than the list's
\* was rejected.
C15_Witness ==
    /\ pc = "validated"
    /\ Len(prompt) <= 500
    /\ ~validation[1]
    /\ \E i \in 1..Len(dangerous_patterns) :
           /\ ContainsIgnoreCase(dangerous_patterns[i], prompt)
           /\ ~Contains(dangerous_patterns[i], prompt)
           /\ validation[2] = MSG_UNSAFE_PREFIX \o dangerous_patterns[i]

\* The inputs the validator accepts.
AcceptedPrompts == {text \in Prompts : validate_user_input(text)[1]}

\* C16: when validation fails the graph is not invoked: the conversation
\* state of the thread, the model's last input and the tools node are left
\* as they were, no loop starts, and the displayed history gains exactly
\* the validation-reason entry; no user message of the thread ever holds a
\* text the validator rejects.
C16_RejectedPromptAbortsTurn ==
    [][/\ (Submitted /\ ~validation'[1]) =>
              /\ messages' = messages
              /\ invoked' = invoked
              /\ pc' = "idle"
              /\ started' = started
              /\ outputs' = outputs
              /\ session' =
                     Append(session,
                            [role |-> "system",
                             content |-> WARNING_PREFIX \o validation'[2]])
       /\ \A i \in 1..Len(messages') :
              messages'[i].type = "human" =>
                  messages'[i].content \in AcceptedPrompts]_vars

\* After a finished turn, the deny-listed prompt was rejected.
C16_Witness ==
    /\ pc = "idle"
    /\ prompt = AskDrop
    /\ ~validation[1]
    /\ Len(messages) >= 2
    /\ Last(session).role = "system"

\* C17: every turn that started the loop ends with a well-formed assistant
\* message, without pending tool calls, as the last message of the
\* thread's conversation state, and with an assistant entry displayed.
C17_TurnEndsWithAssistantMessage ==
    [][(pc \in {"agent", "tools", END} /\ pc' = "idle") =>
          /\ Last(messages').type = "ai"
          /\ Last(messages').tool_calls = <<>>
          /\ Last(session').role = "assistant"]_vars

\* C18: the reply for an internal failure does not depend on the text of
\* the exception: whichever text the exception of llm.invoke or of the run
\* of the graph carries, the appended message and the displayed entry are
\* the same.
C18_FailureReplyIsGeneric ==
    [][/\ (AgentStepped /\ caught' # NoError) =>
              \A e \in ErrorTexts :
                  <<Last(messages')>> =
                      call_model([kind |-> "raise", error |-> e])
       /\ (pc \in {"agent", "tools"} /\ pc' = "idle") =>
              \A e \in ErrorTexts : Last(session') = error_entry(e)]_vars

RegisteredCalls(calls) ==
    {i \in 1..Len(calls) : calls[i].name \in allowed_tool_names(tools)}

C20_ToolSetsAgree ==
    /\ allowed_tool_names(bound_tools) = allowed_tool_names(tools)
    /\ allowed_tool_names(tools) = allowed_tool_names(tool_node_tools)
    /\ pc = "tools" =>
           \A i \in 1..Len(pending_calls) :
               pending_calls[i].name \in allowed_tool_names(tool_node_tools)

\* The tools node has run a registered tool.
C20_Witness ==
    /\ pc = "tools"
    /\ \E i \in DOMAIN outputs : outputs[i].status = "success"

\* A call of fn has ended, by returning or by raising.
Returned(fn) == pc = "db_returned" /\ db_call.fn = fn

\* The statement of the call ran without an error.
Succeeded == db_call.failure = "none" /\ db_call.raised = "none"

\* The stored transactions of the account the call asks for.
TransactionsAsked ==
    {r \in stored.transactions :
        IntArg(0, r.account_id) = db_call.args.account_id}

NewestFirst(r) ==
    \A i, j \in 1..Len(r) : i < j => r[i].timestamp >= r[j].timestamp

\* C21 as stated: for every account id (of the signed 64-bit range) and
\* every limit the function returns only transactions of that account, at
\* most limit of them (none for a limit below zero), newest first, and an
\* empty list, not an error, when the account has none.
C21_TransactionsAtMostLimit ==
    (/\ Returned("get_transactions_for_account")
     /\ fits_int64(db_call.args.account_id)) =>
        LET r == db_call.result
            l == db_call.args.limit
        IN  /\ db_call.raised = "none"
            /\ \A i \in 1..Len(r) : r[i] \in TransactionsAsked
            /\ Len(r) <= IF l < 0 THEN 0 ELSE l
            /\ NewestFirst(r)
            /\ TransactionsAsked = {} => r = <<>>

\* C21, amended: for every account id in the signed 64-bit range the
\* function returns only stored transactions of that account, none twice,
\* newest first, and an empty list when the account has none; for a limit
\* of zero or more it returns at most limit of them, the newest ones, and
\* for a negative limit all of them; for an id outside the 64-bit range it
\* raises once the connection is open.
C21_TransactionsNewestFirst ==
    Returned("get_transactions_for_account") =>
        LET r == db_call.result
            n == Cardinality(TransactionsAsked)
            l == db_call.args.limit
        IN  /\ db_call.raised # "none" <=>
                   /\ ~fits_int64(db_call.args.account_id)
                   /\ db_call.conn # NoConnection
            /\ \A i \in 1..Len(r) : r[i] \in TransactionsAsked
            /\ \A i, j \in 1..Len(r) : r[i] = r[j] => i = j
            /\ NewestFirst(r)
            /\ l >= 0 => Len(r) <= l
            /\ Succeeded => Len(r) = IF l < 0 \/ l > n THEN n ELSE l
            /\ Succeeded =>
                   \A t \in TransactionsAsked :
                       (\A i \in 1..Len(r) : r[i] # t) =>
                           \A i \in 1..Len(r) : r[i].timestamp >= t.timestamp
            /\ TransactionsAsked = {} => r = <<>>

\* Two of the three transactions of an account were returned under a
\* limit of two.
C21_Witness ==
    /\ Returned("get_transactions_for_account")
    /\ Succeeded
    /\ db_call.args.limit = 2
    /\ Cardinality(TransactionsAsked) = 3
    /\ Len(db_call.result) = 2

\* The stored rows with the id an id lookup asks for.
RowsAsked ==
    IF db_call.fn = "get_customer_by_id"
    THEN {r \in stored.customers :
             IntArg(0, r.id) = db_call.args.customer_id}
    ELSE {r \in stored.accounts :
             IntArg(0, r.id) = db_call.args.account_id}

\* C22: when the database answers, an id lookup returns the record of the
\* queried id when one is stored, and None, never another record and never
\* an error, when none is.
C22_IdLookupExact ==
    (/\ pc = "db_returned"
     /\ db_call.fn \in {"get_customer_by_id", "get_account_by_id"}
     /\ db_call.failure = "none") =>
        /\ db_call.raised = "none"
        /\ RowsAsked # {} => db_call.result \in RowsAsked
        /\ RowsAsked = {} => db_call.result = None

\* C23: no step of a data-access call changes the stored rows; an
\* invocation of a tool is one call of the tool's own data-access
\* function, which runs one SELECT statement, and none when the connection
\* cannot be opened or a parameter cannot be bound.
C23_ToolsReadOnly ==
    [][/\ stored' = stored
       /\ (pc = "db_idle" /\ pc' # "db_idle"
             /\ db_call'.caller # "direct") =>
              db_call'.fn = tool_function[db_call'.caller]
       /\ (pc \notin {"db_idle", "db_returned"}) =>
              /\ db_call'.fn = db_call.fn
              /\ db_call'.caller = db_call.caller
              /\ db_call'.args = db_call.args
       /\ (pc = "db_finally") =>
              /\ db_call.statements <= 1
              /\ Succeeded => db_call.statements = 1]_vars

\* A tool has read transactions from a database that holds some.
C23_Witness ==
    /\ pc = "db_returned"
    /\ db_call.caller = "get_transactions_for_account_tool"
    /\ db_call.statements = 1
    /\ db_call.result # <<>>
    /\ stored.transactions # {}

\* The inputs the validator must accept.
Acceptable(text) ==
    /\ text # <<>>
    /\ ~isspace(text)
    /\ Len(text) <= 500
    /\ ~HasDangerous(text)

\* C24: the validator returns (True, "") exactly for the texts that are
\* not empty, not whitespace only, at most 500 characters long and free of
\* every deny-listed pattern in any letter case; otherwise it returns
\* False with a reason that is not empty.
C24_ValidExactlyWhenAcceptable ==
    pc = "validated" =>
        /\ validation[1] <=> Acceptable(prompt)
        /\ validation[1] => validation[2] = <<>>
        /\ ~validation[1] => validation[2] # <<>>

\* An input of exactly 500 characters was accepted.
C24_Witness ==
    /\ pc = "validated"
    /\ Len(prompt) = 500
    /\ validation = <<TRUE, <<>>>>

\* C25: a call that gets a connection has its own, open while its
\* statement runs and closed when the call ends, whether the statement
\* succeeded, failed or could not be bound; no connection is open between
\* calls.
C25_ConnectionClosedOnEveryPath ==
    /\ pc \in {"db_idle", "db_returned"} => connections = {}
    /\ pc \in {"db_try", "db_finally"} =>
           /\ db_call.conn # NoConnection
           /\ connections = {db_call.conn}

\* A call whose statement failed has ended.
C25_Witness ==
    /\ pc = "db_returned"
    /\ db_call.failure = "query"
    /\ db_call.conn # NoConnection
    /\ connections = {}

\* C26: when the connection cannot be opened or the statement raises a
\* database error, the function does not raise: a single-record lookup
\* returns None and a list query the empty list, which is what each
\* returns when no row matches, and no error text.
C26_DatabaseFailureLooksLikeNoRows ==
    (pc = "db_returned" /\ db_call.failure # "none") =>
        /\ db_call.raised = "none"
        /\ db_call.result =
               IF db_call.fn \in ListFunctions THEN <<>> ELSE None
        /\ db_call.result \in query(db_call.fn, db_call.args, EmptyDb)

\* A lookup of a stored customer returned None because the connection
\* could not be opened.
C26_Witness ==
    /\ Returned("get_customer_by_id")
    /\ db_call.failure = "connect"
    /\ db_call.result = None
    /\ \E r \in stored.customers :
           IntArg(0, r.id) = db_call.args.customer_id

\* The run of the graph started by a prompt is over.
TurnEnded == pc \in {"agent", "tools", END} /\ pc' = "idle"

\* The displayed history has grown by one entry of the role.
GrownBy(role) ==
    /\ Len(session') = Len(session) + 1
    /\ SubSeq(session', 1, Len(session)) = session
    /\ Last(session').role = role

\* C27: the displayed history grows by exactly one system entry for a
\* rejected prompt, and for an accepted prompt by one user entry and, when
\* its run is over, one assistant entry, whether the run gave a reply, an
\* empty reply or raised; no other step changes the history, and earlier
\* entries are never changed or removed.
C27_HistoryGrowsByTurn ==
    [][/\ (Submitted /\ ~validation'[1]) => GrownBy("system")
       /\ (Submitted /\ validation'[1]) => GrownBy("user")
       /\ TurnEnded => GrownBy("assistant")
       /\ (pc # "idle" /\ ~TurnEnded) => session' = session
       /\ pc' \in {"agent", "tools", END} => Last(session').role = "user"
       /\ (pc' = "idle" /\ session' # <<>>) =>
              Last(session').role \in {"system", "assistant"}]_vars

\* A run that raised has left one assistant entry after its user entry.
C27_Witness ==
    /\ pc = "idle"
    /\ Len(session) >= 2
    /\ Last(session) \in {error_entry(e) : e \in GraphErrors}
    /\ session[Len(session) - 1].role = "user"

\* C28: when a model response carries tool calls that are all registered
\* and its text holds a harmful token, the appended message is the refusal
\* without tool calls, the loop is at END after that agent step, and the
\* tools node has run none of the calls.
C28_HarmfulTextDropsRegisteredCalls ==
    [][(/\ AgentStepped
        /\ response'.kind = "AIMessage"
        /\ response'.tool_calls # <<>>
        /\ ForeignCalls(response'.tool_calls) = {}
        /\ contains_harmful(response'.content)) =>
           /\ Last(messages') = AIMessage(REFUSAL, <<>>)
           /\ Len(messages') = Len(messages) + 1
           /\ pc' = END
           /\ started' = {}
           /\ outputs' = <<>>]_vars

\* The model asked for a registered tool in a harmful text and the turn
\* is over with the refusal.
C28_Witness ==
    /\ pc = END
    /\ response.kind = "AIMessage"
    /\ response.tool_calls # <<>>
    /\ ForeignCalls(response.tool_calls) = {}
    /\ contains_harmful(response.content)
    /\ Last(messages) = AIMessage(REFUSAL, <<>>)

=============================================================================
